---- MODULE Spec2Model ----
(***************************************************************************)
(* Model of the checkers engine in src/src/checkers/board.rs on top of the *)
(* 8x8 BitGrid of src/src/checkers/util/bit_grid.rs.                       *)
(*                                                                         *)
(* A BitGrid wraps one u64.  TLC's integers are 32 bits wide, so the word  *)
(* is held here as the set of the positions of its 1 bits (a subset of     *)
(* 0..63): bitwise AND, OR and NOT are intersection, union and complement  *)
(* in 0..63, and a shift adds to (or subtracts from) every position and    *)
(* drops the positions that leave 0..63.                                   *)
(*                                                                         *)
(* Position coordinates are u32.  The model holds a u32 by the i32 that    *)
(* has the same bit pattern, so -1 stands for 4294967295; the casts of     *)
(* Move::new are then the identity on the pattern and a coordinate is      *)
(* inside the grid exactly when its pattern is in 0..7.                    *)
(***************************************************************************)
EXTENDS Integers, Sequences, FiniteSets

\* ------------------------------------------------------------------ bounds

\* longest piece list enumerated for Board::new_with_pieces
MaxPieces == 2
\* most 1 bits of the words enumerated for the BitGrid methods
MaxBits == 1
\* largest number of rows and of columns given to BitGrid::shift
MaxShift == 7
\* most move_piece calls applied to one board
MaxMoves == 3
\* farthest (in rows and in columns) a caller-built Move reaches
MaxReach == 2

\* ------------------------------------------------------- bit_grid.rs (u64)

GRID_COLS == 8
GRID_ROWS == 8
GRID_SIZE == GRID_COLS * GRID_ROWS

\* the bit positions of the u64 word
WordBits == 0 .. (GRID_SIZE - 1)

\* u64 `<<` and `>>`: bits pushed past either end of the word are dropped
ShiftLeft(data, amount) == {i + amount : i \in data} \cap WordBits
ShiftRight(data, amount) == {i - amount : i \in data} \cap WordBits

BitGrid_new == {}

new_from_mask(data) == data

index_mask(index) == {index}

\* faulty index_of_cell: column-major
index_of_cell_ColumnMajor(x, y) == y + (x * GRID_COLS)

index_of_cell(x, y) == x + (y * GRID_COLS)

\* faulty cell_at_index: column and row exchanged
cell_at_index_Transposed(index) == <<index \div GRID_ROWS, index % GRID_ROWS>>

cell_at_index(index) == <<index % GRID_ROWS, index \div GRID_ROWS>>

get_at_index(grid, index) == (grid \cap index_mask(index)) # {}

get_at_cell(grid, x, y) == get_at_index(grid, index_of_cell(x, y))

set_at_index(grid, index, value) ==
  IF value THEN grid \cup index_mask(index)
  ELSE grid \cap (WordBits \ index_mask(index))

set_at_cell(grid, x, y, value) == set_at_index(grid, index_of_cell(x, y), value)

Abs(n) == IF n < 0 THEN -n ELSE n

\* faulty shift: a translation of the cells that drops those leaving the grid
shift_EdgeClamped(grid, rows, cols) ==
  {i + rows * GRID_COLS + cols : i \in
     {j \in grid : /\ (j % GRID_COLS) + cols \in 0 .. (GRID_COLS - 1)
                   /\ (j \div GRID_COLS) + rows \in 0 .. (GRID_ROWS - 1)}}

shift(grid, rows, cols) ==
  LET directed_amount == rows * GRID_COLS + cols
      amount == Abs(directed_amount)
  IN IF directed_amount < 0 THEN ShiftRight(grid, amount)
     ELSE ShiftLeft(grid, amount)

intersect(grid, other) == grid \cap other

union(grid, other) == grid \cup other

negate(grid) == WordBits \ grid

none(grid) == grid = {}

\* faulty trailing_zeros: the position of the highest 1 bit
trailing_zeros_Highest(data) == CHOOSE i \in data : \A j \in data : i >= j

\* u64::trailing_zeros of a non-zero word: the position of its lowest 1 bit
trailing_zeros(data) == CHOOSE i \in data : \A j \in data : i <= j

\* SetIndexIterator::next called until it returns None, results collected
RECURSIVE SetIndexIterator_collect(_)
SetIndexIterator_collect(data) ==
  IF data = {} THEN <<>>
  ELSE LET result == trailing_zeros(data)
       IN <<result>> \o SetIndexIterator_collect(data \ {result})

iter_set_indexes(grid) == SetIndexIterator_collect(grid)

\* one call of SetIndexIterator::next on the iterator holding `data`: what it
\* returns and the word it leaves (data & (data - 1) clears the lowest 1 bit)
SetIndexIterator_next(data) ==
  IF data = {} THEN [result |-> <<>>, data |-> data]
  ELSE [result |-> <<trailing_zeros(data)>>,
        data |-> data \ {trailing_zeros(data)}]

iter_set_cells(grid) ==
  LET idx == iter_set_indexes(grid)
  IN [k \in 1 .. Len(idx) |-> cell_at_index(idx[k])]

\* ---------------------------------------------------------------- board.rs

BOARD_WIDTH == 8
BOARD_HEIGHT == 8

\* 0x55AA55AA55AA55AA, least significant byte first
BOARD_MASK_BYTES == <<170, 85, 170, 85, 170, 85, 170, 85>>

\* bit i of the word is bit (i mod 8) of byte (i div 8)
BOARD_MASK ==
  {i \in WordBits : (BOARD_MASK_BYTES[(i \div 8) + 1] \div (2 ^ (i % 8))) % 2 = 1}

Players == {"Player1", "Player2"}

\* Option<T>: Some(v) is the one-element sequence, None the empty one
Some(v) == <<v>>
None == <<>>

Position(x, y) == <<x, y>>

Move(from, to) == [from |-> from, to |-> to]

Piece(position, player, king) ==
  [position |-> position, player |-> player, king |-> king]

Move_new(from, offset) ==
  Move(Position(from[1], from[2]),
       Position(from[1] + offset[1], from[2] + offset[2]))

PlayerBoard(all, kings) == [all |-> all, kings |-> kings]

Board(player1, player2) == [player1 |-> player1, player2 |-> player2]

\* faulty Board::new: two rows a side (shifts by 48) instead of three
Board_new_TwoRows ==
  Board(PlayerBoard(new_from_mask(ShiftRight(ShiftLeft(BOARD_MASK, 48), 48)),
                    BitGrid_new),
        PlayerBoard(new_from_mask(ShiftLeft(ShiftRight(BOARD_MASK, 48), 48)),
                    BitGrid_new))

Board_new ==
  Board(PlayerBoard(new_from_mask(ShiftRight(ShiftLeft(BOARD_MASK, 40), 40)),
                    BitGrid_new),
        PlayerBoard(new_from_mask(ShiftLeft(ShiftRight(BOARD_MASK, 40), 40)),
                    BitGrid_new))

player_board(self, player) ==
  IF player = "Player1" THEN self.player1 ELSE self.player2

\* *board.player_board_mut(player) = pb
player_board_mut(self, player, pb) ==
  IF player = "Player1" THEN [self EXCEPT !.player1 = pb]
  ELSE [self EXCEPT !.player2 = pb]

\* the body of the `for piece in pieces` loop; trap is the failed assert!
new_with_pieces_step(st, piece) ==
  LET player_board_ == player_board(st.board, piece.player)
      x == piece.position[1]
      y == piece.position[2]
      all_ == set_at_cell(player_board_.all, x, y, TRUE)
      kings_ == IF piece.king THEN set_at_cell(player_board_.kings, x, y, TRUE)
                ELSE player_board_.kings
  IN IF st.trap THEN st
     ELSE IF get_at_cell(player_board_.all, x, y)
          THEN [st EXCEPT !.trap = TRUE]
          ELSE [st EXCEPT !.board =
                  player_board_mut(st.board, piece.player, PlayerBoard(all_, kings_))]

RECURSIVE new_with_pieces_loop(_, _, _)
new_with_pieces_loop(st, pieces, k) ==
  IF k > Len(pieces) THEN st
  ELSE new_with_pieces_loop(new_with_pieces_step(st, pieces[k]), pieces, k + 1)

\* [trap |-> the assert! failed, board |-> the Board returned otherwise]
new_with_pieces(pieces) ==
  new_with_pieces_loop(
    [trap |-> FALSE,
     board |-> Board(PlayerBoard(BitGrid_new, BitGrid_new),
                     PlayerBoard(BitGrid_new, BitGrid_new))],
    pieces, 1)

\* faulty move_piece: the king flag is set at `to` but left behind at `from`
move_piece_KingLeftBehind(self, player, move) ==
  LET from == move.from
      to == move.to
      pb == player_board(self, player)
      all_ == set_at_cell(set_at_cell(pb.all, from[1], from[2], FALSE),
                          to[1], to[2], TRUE)
      kings_ ==
        IF \/ get_at_cell(pb.kings, from[1], from[2])
           \/ (player = "Player1" /\ to[2] = BOARD_HEIGHT - 1)
           \/ (player = "Player2" /\ to[2] = 0)
        THEN set_at_cell(pb.kings, to[1], to[2], TRUE)
        ELSE pb.kings
  IN player_board_mut(self, player, PlayerBoard(all_, kings_))

\* faulty move_piece: the cell landed on is also cleared in the opponent's boards
move_piece_ClearsOpponent(self, player, move) ==
  LET from == move.from
      to == move.to
      pb == player_board(self, player)
      other == IF player = "Player1" THEN "Player2" ELSE "Player1"
      ob == player_board(self, other)
      all_ == set_at_cell(set_at_cell(pb.all, from[1], from[2], FALSE),
                          to[1], to[2], TRUE)
      kings_ ==
        IF \/ get_at_cell(pb.kings, from[1], from[2])
           \/ (player = "Player1" /\ to[2] = BOARD_HEIGHT - 1)
           \/ (player = "Player2" /\ to[2] = 0)
        THEN set_at_cell(set_at_cell(pb.kings, from[1], from[2], FALSE),
                         to[1], to[2], TRUE)
        ELSE pb.kings
  IN player_board_mut(
       player_board_mut(self, player, PlayerBoard(all_, kings_)),
       other,
       PlayerBoard(set_at_cell(ob.all, to[1], to[2], FALSE),
                   set_at_cell(ob.kings, to[1], to[2], FALSE)))

\* faulty move_piece: `to` is set in the all bitboard but `from` is not cleared
move_piece_FromKept(self, player, move) ==
  LET from == move.from
      to == move.to
      pb == player_board(self, player)
      all_ == set_at_cell(pb.all, to[1], to[2], TRUE)
      kings_ ==
        IF \/ get_at_cell(pb.kings, from[1], from[2])
           \/ (player = "Player1" /\ to[2] = BOARD_HEIGHT - 1)
           \/ (player = "Player2" /\ to[2] = 0)
        THEN set_at_cell(set_at_cell(pb.kings, from[1], from[2], FALSE),
                         to[1], to[2], TRUE)
        ELSE pb.kings
  IN player_board_mut(self, player, PlayerBoard(all_, kings_))

move_piece(self, player, move) ==
  LET from == move.from
      to == move.to
      pb == player_board(self, player)
      all_ == set_at_cell(set_at_cell(pb.all, from[1], from[2], FALSE),
                          to[1], to[2], TRUE)
      kings_ ==
        IF \/ get_at_cell(pb.kings, from[1], from[2])
           \/ (player = "Player1" /\ to[2] = BOARD_HEIGHT - 1)
           \/ (player = "Player2" /\ to[2] = 0)
        THEN set_at_cell(set_at_cell(pb.kings, from[1], from[2], FALSE),
                         to[1], to[2], TRUE)
        ELSE pb.kings
  IN player_board_mut(self, player, PlayerBoard(all_, kings_))

\* faulty empty_squares: the intersection with BOARD_MASK is left out
empty_squares_NoMask(self) ==
  negate(union(self.player1.all, self.player2.all))

\* faulty empty_squares: only Player1's pieces count as occupying a cell
empty_squares_Player1Only(self) ==
  intersect(negate(self.player1.all), new_from_mask(BOARD_MASK))

empty_squares(self) ==
  intersect(negate(union(self.player1.all, self.player2.all)),
            new_from_mask(BOARD_MASK))

downward_moving(self, player) ==
  IF player = "Player1" THEN self.player1.all ELSE self.player2.kings

upward_moving(self, player) ==
  IF player = "Player1" THEN self.player1.kings ELSE self.player2.all

\* the closure get_moves of normal_moves, collected
get_moves(self, moving, vertical, horizontal) ==
  LET cells == iter_set_cells(
                 intersect(shift(empty_squares(self), -vertical, -horizontal),
                           moving))
  IN [k \in 1 .. Len(cells) |->
        Move_new(Position(cells[k][1], cells[k][2]), <<horizontal, vertical>>)]

\* faulty normal_moves: the upward groups are chained before the downward ones
normal_moves_UpFirst(self, player) ==
  get_moves(self, upward_moving(self, player), -1, -1)
    \o get_moves(self, upward_moving(self, player), -1, 1)
    \o get_moves(self, downward_moving(self, player), 1, -1)
    \o get_moves(self, downward_moving(self, player), 1, 1)

normal_moves(self, player) ==
  get_moves(self, downward_moving(self, player), 1, -1)
    \o get_moves(self, downward_moving(self, player), 1, 1)
    \o get_moves(self, upward_moving(self, player), -1, -1)
    \o get_moves(self, upward_moving(self, player), -1, 1)

opponents_of(self, player) ==
  IF player = "Player1" THEN self.player2.all ELSE self.player1.all

\* faulty get_jumps: the opponents are shifted two steps instead of one
get_jumps_OpponentTwoSteps(self, player, moving, vertical, horizontal) ==
  LET cells == iter_set_cells(
                 intersect(
                   intersect(
                     shift(empty_squares(self), -vertical * 2, -horizontal * 2),
                     shift(opponents_of(self, player),
                           -vertical * 2, -horizontal * 2)),
                   moving))
  IN [k \in 1 .. Len(cells) |->
        Move_new(Position(cells[k][1], cells[k][2]),
                 <<horizontal * 2, vertical * 2>>)]

\* the closure get_jumps of jump_moves, collected
get_jumps(self, player, moving, vertical, horizontal) ==
  LET cells == iter_set_cells(
                 intersect(
                   intersect(
                     shift(empty_squares(self), -vertical * 2, -horizontal * 2),
                     shift(opponents_of(self, player), -vertical, -horizontal)),
                   moving))
  IN [k \in 1 .. Len(cells) |->
        Move_new(Position(cells[k][1], cells[k][2]),
                 <<horizontal * 2, vertical * 2>>)]

jump_moves(self, player) ==
  get_jumps(self, player, downward_moving(self, player), 1, -1)
    \o get_jumps(self, player, downward_moving(self, player), 1, 1)
    \o get_jumps(self, player, upward_moving(self, player), -1, -1)
    \o get_jumps(self, player, upward_moving(self, player), -1, 1)

\* faulty winner: Player2's occupancy is tested first
winner_Player2First(self) ==
  IF none(self.player2.all) THEN Some("Player1")
  ELSE IF none(self.player1.all) THEN Some("Player2")
  ELSE None

winner(self) ==
  IF none(self.player1.all) THEN Some("Player2")
  ELSE IF none(self.player2.all) THEN Some("Player1")
  ELSE None

pieces_of(self, player) ==
  LET pb == player_board(self, player)
      cells == iter_set_cells(pb.all)
  IN [k \in 1 .. Len(cells) |->
        Piece(Position(cells[k][1], cells[k][2]), player,
              get_at_cell(pb.kings, cells[k][1], cells[k][2]))]

pieces_iter(self) == pieces_of(self, "Player1") \o pieces_of(self, "Player2")

\* the conditions of the if / else-if chain of piece_at, in the order tested:
\* player1.kings, player1.all, player2.kings, player2.all at the cell
piece_at_tests(self, position) ==
  << get_at_cell(self.player1.kings, position[1], position[2]),
     get_at_cell(self.player1.all, position[1], position[2]),
     get_at_cell(self.player2.kings, position[1], position[2]),
     get_at_cell(self.player2.all, position[1], position[2]) >>

\* faulty piece_at: each player's occupancy is tested before its kings
piece_at_ManFirst(self, position) ==
  LET tests == piece_at_tests(self, position)
  IN IF tests[2] THEN Some(Piece(position, "Player1", FALSE))
     ELSE IF tests[1] THEN Some(Piece(position, "Player1", TRUE))
     ELSE IF tests[4] THEN Some(Piece(position, "Player2", FALSE))
     ELSE IF tests[3] THEN Some(Piece(position, "Player2", TRUE))
     ELSE None

piece_at(self, position) ==
  LET tests == piece_at_tests(self, position)
  IN IF tests[1] THEN Some(Piece(position, "Player1", TRUE))
     ELSE IF tests[2] THEN Some(Piece(position, "Player1", FALSE))
     ELSE IF tests[3] THEN Some(Piece(position, "Player2", TRUE))
     ELSE IF tests[4] THEN Some(Piece(position, "Player2", FALSE))
     ELSE None

\* ------------------------------------------------------- callers' inputs

Coords == 0 .. (BOARD_WIDTH - 1)
Cells == Coords \X Coords
DarkCells == {c \in Cells : (c[1] % 2) # (c[2] % 2)}

\* the cell dx columns and dy rows away from c
Target(c, dx, dy) == <<c[1] + dx, c[2] + dy>>

PieceValues(cells) ==
  {Piece(c, p, k) : c \in cells, p \in Players, k \in BOOLEAN}

DistinctPositions(ps) ==
  \A i, j \in 1 .. Len(ps) : i # j => ps[i].position # ps[j].position

\* every list of at most n pieces standing on the given cells
PieceLists(cells, n) ==
  UNION {[1 .. m -> PieceValues(cells)] : m \in 0 .. n}

\* the boards of the unit tests of board.rs
KingPiecesFixture ==
  << Piece(<<5, 6>>, "Player1", FALSE), Piece(<<2, 1>>, "Player2", FALSE) >>

NormalMovesFixture ==
  << Piece(<<3, 0>>, "Player1", TRUE),  Piece(<<0, 3>>, "Player1", FALSE),
     Piece(<<7, 4>>, "Player1", FALSE), Piece(<<4, 5>>, "Player1", FALSE),
     Piece(<<3, 6>>, "Player1", TRUE),  Piece(<<4, 7>>, "Player1", TRUE),
     Piece(<<5, 0>>, "Player2", TRUE),  Piece(<<3, 4>>, "Player2", TRUE),
     Piece(<<2, 5>>, "Player2", FALSE) >>

JumpMovesFixture ==
  << Piece(<<0, 5>>, "Player1", TRUE),  Piece(<<2, 5>>, "Player1", FALSE),
     Piece(<<3, 6>>, "Player1", FALSE), Piece(<<0, 7>>, "Player1", TRUE),
     Piece(<<1, 4>>, "Player2", TRUE),  Piece(<<1, 6>>, "Player2", FALSE),
     Piece(<<4, 7>>, "Player2", FALSE) >>

Fixtures == {KingPiecesFixture, NormalMovesFixture, JumpMovesFixture}

\* piece lists a game is started from: valid positions, as the doc comment of
\* new_with_pieces asks (dark cells, no two pieces on one cell)
BoardInputs ==
  Fixtures \cup {ps \in PieceLists(DarkCells, MaxPieces) : DistinctPositions(ps)}

\* ------------------------------------------------------------ state machine

VARIABLES
  board,    \* the Board the caller holds
  prev,     \* the Board the last call was made on
  call,     \* the last call: [op, player, move]
  nmoves,   \* move_piece calls so far
  input,    \* the piece list given to new_with_pieces
  trapped,  \* new_with_pieces panicked
  origin,   \* the constructor the Board came from
  grid,     \* the BitGrid a BitGrid method is called on
  gcall,    \* the last BitGrid call: [op, args, result]
  it,       \* the word held by the SetIndexIterator of grid
  emitted   \* what the SetIndexIterator has returned in Some so far

boardvars == <<board, prev, call, nmoves, input, trapped, origin>>

gridvars == <<grid, gcall, it, emitted>>

vars == <<board, prev, call, nmoves, input, trapped, origin, grid, gcall, it, emitted>>

GridCall(op, args, result) == [op |-> op, args |-> args, result |-> result]

NoGridCall == GridCall("none", <<>>, {})

\* no BitGrid is under study
GridIdle ==
  /\ grid = BitGrid_new
  /\ gcall = NoGridCall
  /\ it = BitGrid_new
  /\ emitted = <<>>

NoMove == Move(Position(0, 0), Position(0, 0))

Call(op, player, move) == [op |-> op, player |-> player, move |-> move]

EmptyBoard ==
  Board(PlayerBoard(BitGrid_new, BitGrid_new), PlayerBoard(BitGrid_new, BitGrid_new))

\* a game starts from Board::new() or from Board::new_with_pieces(valid list)
Init ==
  /\ \/ /\ board = Board_new
        /\ call = Call("new", "None", NoMove)
     \/ /\ \E ps \in BoardInputs : board = new_with_pieces(ps).board
        /\ call = Call("new_with_pieces", "None", NoMove)
  /\ prev = board
  /\ nmoves = 0
  /\ input = <<>>
  /\ trapped = FALSE
  /\ origin = call.op
  /\ GridIdle

Apply(op, player, move) ==
  /\ nmoves < MaxMoves
  /\ board' = move_piece(board, player, move)
  /\ prev' = board
  /\ call' = Call(op, player, move)
  /\ nmoves' = nmoves + 1
  /\ UNCHANGED <<input, trapped, origin>>
  /\ UNCHANGED gridvars

\* board.move_piece(player, m) with m taken from board.normal_moves(player)
MovePieceNormal ==
  \E player \in Players :
    LET moves == normal_moves(board, player)
    IN \E k \in 1 .. Len(moves) : Apply("normal", player, moves[k])

\* board.move_piece(player, m) with m taken from board.jump_moves(player)
MovePieceJump ==
  \E player \in Players :
    LET moves == jump_moves(board, player)
    IN \E k \in 1 .. Len(moves) : Apply("jump", player, moves[k])

Next == MovePieceNormal \/ MovePieceJump

Spec == Init /\ [][Next]_vars

\* Moves a caller builds itself (Move has public fields, as in main.rs): any
\* two cells of the grid at most MaxReach rows and columns apart
CallerMoves ==
  {Move(c, Target(c, dx, dy)) :
     c \in Cells, dx \in -MaxReach .. MaxReach, dy \in -MaxReach .. MaxReach}
  \cap [from : Cells, to : Cells]

\* boards one caller-built move is applied to
InitAny ==
  /\ \/ /\ board = Board_new
        /\ call = Call("new", "None", NoMove)
     \/ /\ \E ps \in Fixtures \cup {<<pc>> : pc \in PieceValues(DarkCells)} :
             board = new_with_pieces(ps).board
        /\ call = Call("new_with_pieces", "None", NoMove)
  /\ prev = board
  /\ nmoves = 0
  /\ input = <<>>
  /\ trapped = FALSE
  /\ origin = call.op
  /\ GridIdle

\* board.move_piece(player, m), m any Move: move_piece checks nothing
MovePieceAny ==
  /\ nmoves = 0
  /\ \E player \in Players, m \in CallerMoves : Apply("any", player, m)

NextAny == MovePieceAny

SpecAny == InitAny /\ [][NextAny]_vars

\* piece lists given to new_with_pieces: any cells of the grid, repeats allowed
InitPieces ==
  /\ input \in Fixtures \cup PieceLists(Cells, MaxPieces)
  /\ board = EmptyBoard
  /\ prev = EmptyBoard
  /\ call = Call("none", "None", NoMove)
  /\ nmoves = 0
  /\ trapped = FALSE
  /\ origin = "new_with_pieces"
  /\ GridIdle

\* Board::new_with_pieces(input): the Board it returns, or the panic
NewWithPieces ==
  /\ call.op = "none"
  /\ trapped' = new_with_pieces(input).trap
  /\ board' = IF new_with_pieces(input).trap THEN board
               ELSE new_with_pieces(input).board
  /\ call' = Call("new_with_pieces", "None", NoMove)
  /\ UNCHANGED <<prev, nmoves, input, origin>>
  /\ UNCHANGED gridvars

NextPieces == NewWithPieces

SpecPieces == InitPieces /\ [][NextPieces]_vars

\* no Board is under study
BoardIdle ==
  /\ board = EmptyBoard
  /\ prev = EmptyBoard
  /\ call = Call("none", "None", NoMove)
  /\ nmoves = 0
  /\ input = <<>>
  /\ trapped = FALSE
  /\ origin = "none"

RECURSIVE WordsUpTo(_)
\* the words with at most n bits set
WordsUpTo(n) ==
  IF n = 0 THEN {{}}
  ELSE LET fewer == WordsUpTo(n - 1)
       IN fewer \cup {w \cup {i} : w \in fewer, i \in WordBits}

\* the masks of the doc examples of bit_grid.rs (0b110, 0b01100000110,
\* 0b11001, 0b10101, 0b10100, 0b100000100), the board mask, the two starting
\* occupancies and the full word
SampleWords ==
  { {1, 2}, {1, 2, 9, 10}, {0, 3, 4}, {0, 2, 4}, {2, 4}, {2, 8},
    BOARD_MASK, Board_new.player1.all, Board_new.player2.all, WordBits }

Words == WordsUpTo(MaxBits) \cup SampleWords

\* a BitGrid, and the SetIndexIterator iter_set_indexes returns for it
InitGrid ==
  /\ grid \in Words
  /\ gcall = NoGridCall
  /\ it = grid
  /\ emitted = <<>>
  /\ BoardIdle

\* grid.shift(rows, cols); u64 shifts by 64 or more overflow and are left out
GridShift ==
  /\ gcall.op = "none"
  /\ \E rows \in -MaxShift .. MaxShift, cols \in -MaxShift .. MaxShift :
       /\ Abs(rows * GRID_COLS + cols) < GRID_SIZE
       /\ gcall' = GridCall("shift", <<rows, cols>>, shift(grid, rows, cols))
  /\ UNCHANGED <<grid, it, emitted>>
  /\ UNCHANGED boardvars

\* grid.set_at_cell(x, y, value)
GridSet ==
  /\ gcall.op = "none"
  /\ \E x \in Coords, y \in Coords, value \in BOOLEAN :
       gcall' = GridCall("set_at_cell", <<x, y, value>>,
                         set_at_cell(grid, x, y, value))
  /\ UNCHANGED <<grid, it, emitted>>
  /\ UNCHANGED boardvars

\* one more call of next() on grid.iter_set_indexes(), until it returns None
IterNext ==
  /\ gcall.op \in {"none", "next"}
  /\ gcall.op = "next" => gcall.result # None
  /\ gcall' = GridCall("next", <<>>, SetIndexIterator_next(it).result)
  /\ it' = SetIndexIterator_next(it).data
  /\ emitted' = emitted \o SetIndexIterator_next(it).result
  /\ UNCHANGED grid
  /\ UNCHANGED boardvars

NextGrid == GridShift \/ GridSet \/ IterNext

SpecGrid == InitGrid /\ [][NextGrid]_vars

\* ------------------------------------------------------- reference notions

Range(s) == {s[k] : k \in DOMAIN s}

InGrid(c) == c[1] \in Coords /\ c[2] \in Coords

Dark(c) == (c[1] % 2) # (c[2] % 2)

\* the cell (x, y) is the bit at index x + 8*y
Idx(c) == c[1] + 8 * c[2]

Holds(b, player, c) == InGrid(c) /\ Idx(c) \in player_board(b, player).all

IsKing(b, player, c) == InGrid(c) /\ Idx(c) \in player_board(b, player).kings

Vacant(b, c) ==
  InGrid(c) /\ Idx(c) \notin b.player1.all /\ Idx(c) \notin b.player2.all

Opponent(player) == IF player = "Player1" THEN "Player2" ELSE "Player1"

\* a piece of the player stands on c and may move in vertical direction dy
MayMove(b, player, c, dy) ==
  /\ Holds(b, player, c)
  /\ \/ IsKing(b, player, c)
     \/ (player = "Player1" /\ dy = 1)
     \/ (player = "Player2" /\ dy = -1)

Steps == {-1, 1}

DarkIndexes == {Idx(c) : c \in {d \in Cells : Dark(d)}}

BoardInvariant(b) ==
  /\ b.player1.all \cap b.player2.all = {}
  /\ b.player1.all \subseteq DarkIndexes
  /\ b.player2.all \subseteq DarkIndexes
  /\ b.player1.kings \subseteq b.player1.all
  /\ b.player2.kings \subseteq b.player2.all

\* per cell: the non-jump moves the rules allow the player
RefNormalMoves(b, player) ==
  LET legal == {t \in {c \in Cells : Holds(b, player, c)} \X Steps \X Steps :
                  /\ MayMove(b, player, t[1], t[3])
                  /\ InGrid(Target(t[1], t[2], t[3]))
                  /\ Dark(Target(t[1], t[2], t[3]))
                  /\ Vacant(b, Target(t[1], t[2], t[3]))}
  IN {Move(t[1], Target(t[1], t[2], t[3])) : t \in legal}

\* per cell: the single jumps the rules allow the player
RefJumpMoves(b, player) ==
  LET legal == {t \in {c \in Cells : Holds(b, player, c)} \X Steps \X Steps :
                  /\ MayMove(b, player, t[1], t[3])
                  /\ Holds(b, Opponent(player), Target(t[1], t[2], t[3]))
                  /\ InGrid(Target(t[1], 2 * t[2], 2 * t[3]))
                  /\ Dark(Target(t[1], 2 * t[2], 2 * t[3]))
                  /\ Vacant(b, Target(t[1], 2 * t[2], 2 * t[3]))}
  IN {Move(t[1], Target(t[1], 2 * t[2], 2 * t[3])) : t \in legal}

\* ------------------------------------------------------------------ claims

\* C1: on every Board that satisfies the Board invariant and for each player,
\* the moves yielded by normal_moves(player) are exactly the per-cell reference
\* set: one diagonal step from a piece of the player allowed to move that way
\* onto a dark, vacant cell of the grid.  None is extra, none is missing.
C1_NormalMovesAreReference ==
  BoardInvariant(board) =>
    \A player \in Players :
      Range(normal_moves(board, player)) = RefNormalMoves(board, player)

\* a king on a side column next to a vacant cell, and a piece of the same
\* player with a neighbour that is taken: moves are yielded and moves are held back
C1_Witness ==
  /\ BoardInvariant(board)
  /\ \E player \in Players :
       /\ Len(normal_moves(board, player)) > 0
       /\ \E c \in Cells : IsKing(board, player, c) /\ c[1] \in {0, 7}
       /\ \E c \in Cells, dx \in Steps, dy \in Steps :
            /\ MayMove(board, player, c, dy)
            /\ InGrid(Target(c, dx, dy)) /\ ~Vacant(board, Target(c, dx, dy))

\* C2: on every Board that satisfies the Board invariant and for each player,
\* the moves yielded by jump_moves(player) are exactly the per-cell reference
\* set: two diagonal steps from a piece of the player allowed to move that way,
\* over an opponent piece, onto a dark, vacant cell of the grid.
C2_JumpMovesAreReference ==
  BoardInvariant(board) =>
    \A player \in Players :
      Range(jump_moves(board, player)) = RefJumpMoves(board, player)

\* a jump is yielded, and another piece next to an opponent has no jump that way
C2_Witness ==
  /\ BoardInvariant(board)
  /\ \E player \in Players :
       /\ Len(jump_moves(board, player)) > 0
       /\ \E c \in Cells, dx \in Steps, dy \in Steps :
            /\ MayMove(board, player, c, dy)
            /\ Holds(board, Opponent(player), Target(c, dx, dy))
            /\ Move(c, Target(c, 2 * dx, 2 * dy))
                 \notin Range(jump_moves(board, player))

\* C3: every Board reached from Board::new() by move_piece calls with moves
\* yielded by normal_moves or jump_moves (either player, any order) keeps the
\* two occupancies disjoint and on dark cells, and kings within all.
C3_InvariantKept == BoardInvariant(board)

\* a jump has been played on a board that started from Board::new()
C3_Witness ==
  /\ call.op = "jump"
  /\ Cardinality(board.player1.all) = 12
  /\ Cardinality(board.player2.all) = 12

\* a king has been moved by a yielded move
C3_WitnessKing ==
  /\ call.op \in {"normal", "jump"}
  /\ IsKing(prev, call.player, call.move.from)

\* C4: new_with_pieces traps whenever two pieces of its input share a position,
\* whoever owns them, and returns a Board only when all positions are distinct.
C4_TrapsOnEverySharedPosition ==
  call.op = "new_with_pieces" =>
    (trapped <=> ~DistinctPositions(input))

\* the player that moved, its move and the opponent, for the last call
Mover == call.player
From == call.move.from
To == call.move.to
FarRow(player) == IF player = "Player1" THEN 7 ELSE 0

\* the last call was move_piece on a Board satisfying the invariant, from a
\* cell holding a piece of the mover onto a vacant cell of the grid
C5_Case ==
  /\ call.op = "any"
  /\ BoardInvariant(prev)
  /\ Holds(prev, Mover, From)
  /\ Vacant(prev, To)

\* C5: in that case the piece at move.to is a king exactly when the piece at
\* move.from was one or move.to is on the mover's farthest row (7 for Player1,
\* 0 for Player2); the king flag at move.from is clear afterwards.
C5_KingIffWasKingOrFarRow ==
  C5_Case =>
    /\ piece_at(board, To) =
         Some(Piece(To, Mover, IsKing(prev, Mover, From) \/ To[2] = FarRow(Mover)))
    /\ IsKing(board, Mover, To) <=>
         (IsKing(prev, Mover, From) \/ To[2] = FarRow(Mover))
    /\ ~IsKing(board, Mover, From)

\* a man has just been moved onto its farthest row
C5_Witness ==
  /\ C5_Case
  /\ ~IsKing(prev, Mover, From)
  /\ To[2] = FarRow(Mover)
  /\ From[2] # FarRow(Mover)

\* every cell but move.from and move.to keeps its value in the mover's two
\* bitboards, and the opponent's two bitboards are unchanged
C6_Frame ==
  /\ \A i \in WordBits \ {Idx(From), Idx(To)} :
       /\ i \in player_board(board, Mover).all
            <=> i \in player_board(prev, Mover).all
       /\ i \in player_board(board, Mover).kings
            <=> i \in player_board(prev, Mover).kings
  /\ player_board(board, Opponent(Mover)) = player_board(prev, Opponent(Mover))

\* the cell a jump passes over
Middle == <<(From[1] + To[1]) \div 2, (From[2] + To[2]) \div 2>>

\* after a jump yielded by jump_moves the piece jumped over is still there
C6_JumpedPieceStays ==
  call.move \in Range(jump_moves(prev, Mover)) =>
    /\ Holds(prev, Opponent(Mover), Middle)
    /\ Holds(board, Opponent(Mover), Middle)

\* C6 as stated: move_piece(player, move) clears move.from and sets move.to in the
\* mover's all bitboard, changes no other cell of the mover's bitboards and
\* nothing of the opponent's; a jumped-over piece stays.
C6_FromClearedToSet ==
  call.op = "any" =>
    /\ Idx(From) \notin player_board(board, Mover).all
    /\ Idx(To) \in player_board(board, Mover).all
    /\ C6_Frame
    /\ C6_JumpedPieceStays

\* C6 as amended: the same, with move.from cleared when it differs from move.to
\* (with move.from = move.to the cell ends up set).
C6_FromClearedUnlessSameCell ==
  call.op = "any" =>
    /\ From # To => Idx(From) \notin player_board(board, Mover).all
    /\ Idx(To) \in player_board(board, Mover).all
    /\ C6_Frame
    /\ C6_JumpedPieceStays

\* a jump yielded by jump_moves has just been applied
C6_Witness ==
  /\ call.op = "any"
  /\ call.move \in Range(jump_moves(prev, Mover))
  /\ Holds(board, Mover, To)
  /\ ~Holds(board, Mover, From)

\* C7: winner() is Player2 when Player1's occupancy is empty (also when both
\* are), Player1 when only Player2's is empty, and None exactly when both are
\* non-empty; None on Board::new(), Player1 on a board of Player1 pieces only.
C7_Winner ==
  /\ board.player1.all = {} => winner(board) = Some("Player2")
  /\ board.player2.all = {} /\ board.player1.all # {} =>
       winner(board) = Some("Player1")
  /\ winner(board) = None <=> (board.player1.all # {} /\ board.player2.all # {})
  /\ call.op = "new" /\ nmoves = 0 => winner(board) = None

\* a board with no piece of either player
C7_Witness ==
  /\ board.player1.all = {}
  /\ board.player2.all = {}
  /\ winner(board) = Some("Player2")

\* C8: for a piece list with pairwise distinct positions inside the grid,
\* pieces_iter on the Board new_with_pieces returns yields exactly the pieces
\* of the list: same position, player and king flag, none added, none lost.
C8_RoundTrip ==
  call.op = "new_with_pieces" /\ DistinctPositions(input) =>
    /\ ~trapped
    /\ Range(pieces_iter(board)) = Range(input)
    /\ Len(pieces_iter(board)) = Len(input)

\* a list of a king and a man of different players, one of them on a light
\* cell and off the diagonal, has been built into a Board
C8_Witness ==
  /\ call.op = "new_with_pieces"
  /\ DistinctPositions(input)
  /\ Len(input) = 2
  /\ input[1].player # input[2].player
  /\ input[1].king /\ ~input[2].king
  /\ ~Dark(input[1].position)
  /\ input[1].position[1] # input[1].position[2]
  /\ ~trapped

RowsDark(rows) == {Idx(c) : c \in {d \in Cells : Dark(d) /\ d[2] \in rows}}

\* C9: Board::new() has Player1 on exactly the 12 dark cells of rows 0-2,
\* Player2 on exactly the 12 dark cells of rows 5-7 and no kings; on it
\* normal_moves(Player1) yields exactly 7 moves, all from row 2 to row 3, and
\* jump_moves yields nothing for either player.
C9_InitialBoard ==
  call.op = "new" /\ nmoves = 0 =>
    /\ board.player1.all = RowsDark(0 .. 2)
    /\ board.player2.all = RowsDark(5 .. 7)
    /\ Cardinality(board.player1.all) = 12
    /\ Cardinality(board.player2.all) = 12
    /\ board.player1.kings = {}
    /\ board.player2.kings = {}
    /\ Len(normal_moves(board, "Player1")) = 7
    /\ Cardinality(Range(normal_moves(board, "Player1"))) = 7
    /\ \A m \in Range(normal_moves(board, "Player1")) :
         m.from[2] = 2 /\ m.to[2] = 3
    /\ jump_moves(board, "Player1") = <<>>
    /\ jump_moves(board, "Player2") = <<>>

\* the Board just returned by Board::new()
C9_Witness ==
  /\ call.op = "new"
  /\ nmoves = 0
  /\ Len(normal_moves(board, "Player1")) = 7

\* the tests of piece_at that match the cell
TestsMatching(b, c) ==
  LET tests == piece_at_tests(b, c) IN {k \in 1 .. 4 : tests[k]}

\* piece_at agrees with pieces_iter at every cell of the grid, and is None
\* exactly on the cells neither player occupies
C10_Agreement ==
  LET yielded == Range(pieces_iter(board))
  IN /\ \A pc \in yielded : piece_at(board, pc.position) = Some(pc)
     /\ \A c \in Cells :
          LET found == piece_at(board, c)
          IN /\ found # None => found[1] \in yielded
             /\ found = None <=> Vacant(board, c)

\* C10 as stated: on a Board satisfying the invariant piece_at agrees with
\* pieces_iter, and at most one of the four tests of piece_at matches a cell.
C10_AtMostOneTest ==
  BoardInvariant(board) =>
    /\ C10_Agreement
    /\ \A c \in Cells : Cardinality(TestsMatching(board, c)) <= 1

\* C10 as amended: piece_at agrees with pieces_iter, and the tests of at most
\* one player match a cell; a king's cell matches both the king test and the
\* occupancy test of its player, so the order of the tests decides the flag.
C10_AtMostOnePlayer ==
  BoardInvariant(board) =>
    /\ C10_Agreement
    /\ \A c \in Cells :
         LET matching == TestsMatching(board, c)
         IN /\ matching \in {{}, {2}, {1, 2}, {4}, {3, 4}}
            /\ IsKing(board, "Player1", c) => matching = {1, 2}
            /\ IsKing(board, "Player2", c) => matching = {3, 4}

\* a board with a king and a man of each player
C10_Witness ==
  /\ BoardInvariant(board)
  /\ \A player \in Players :
       /\ \E c \in Cells : piece_at(board, c) = Some(Piece(c, player, TRUE))
       /\ \E c \in Cells : piece_at(board, c) = Some(Piece(c, player, FALSE))

\* the signed distance in bit positions of the last shift
ShiftDistance == 8 * gcall.args[1] + gcall.args[2]

\* C11: for rows, cols with |8*rows + cols| < 64, shift(rows, cols) is the raw
\* word shift by d = 8*rows + cols: bit j of the result is set exactly when
\* 0 <= j - d <= 63 and bit j - d of the word is set.  Bits pushed past either
\* end are dropped, and nothing is clamped at a column edge.
C11_ShiftIsRawWordShift ==
  gcall.op = "shift" =>
    /\ gcall.result \subseteq WordBits
    /\ \A j \in WordBits :
         j \in gcall.result <=>
           (j - ShiftDistance \in 0 .. 63 /\ j - ShiftDistance \in grid)

\* the cell (7, 0) shifted one column to the right reappears as the cell (0, 1)
C11_Witness ==
  /\ gcall.op = "shift"
  /\ grid = {7}
  /\ gcall.args = <<0, 1>>
  /\ gcall.result = {8}

\* C12: b.set(x, y, v).get(x, y) = v, every other cell of the result equals
\* the same cell of b, setting the same cell to the same value again changes
\* nothing, and the cell (x, y) is the bit at index x + 8*y.
C12_SetThenGet ==
  gcall.op = "set_at_cell" =>
    LET x == gcall.args[1]
        y == gcall.args[2]
        v == gcall.args[3]
    IN /\ get_at_cell(gcall.result, x, y) = v
       /\ \A c \in Cells \ {<<x, y>>} :
            get_at_cell(gcall.result, c[1], c[2]) = get_at_cell(grid, c[1], c[2])
       /\ set_at_cell(gcall.result, x, y, v) = gcall.result
       /\ (x + 8 * y) \in gcall.result <=> v
       /\ \A i \in WordBits \ {x + 8 * y} : i \in gcall.result <=> i \in grid
       /\ get_at_index(gcall.result, x + 8 * y) = v

\* the cell (0, 1), bit 8, has been cleared in the word with bits 2 and 8
C12_Witness ==
  /\ gcall.op = "set_at_cell"
  /\ grid = {2, 8}
  /\ gcall.args = <<0, 1, FALSE>>
  /\ gcall.result = {2}

\* next() has returned None
Exhausted == gcall.op = "next" /\ gcall.result = None

\* C13: iter_set_indexes yields every set index of the word exactly once, in
\* strictly ascending order, lowest set bit first, and returns None after
\* exactly as many elements as the word has set bits; iter_set_cells yields the
\* same sequence mapped by index -> (index mod 8, index div 8), so the word
\* with bits 2 and 8 yields (2, 0) then (0, 1).
C13_AscendingSetIndexes ==
  gcall.op \in {"none", "next"} =>
    /\ \A i, j \in 1 .. Len(emitted) : i < j => emitted[i] < emitted[j]
    /\ Range(emitted) \cup it = grid
    /\ \A e \in Range(emitted) : e \notin it /\ \A r \in it : e < r
    /\ Len(emitted) = Cardinality(grid) - Cardinality(it)
    /\ gcall.op = "next" /\ gcall.result = None =>
         Len(emitted) = Cardinality(grid)
    /\ SetIndexIterator_next(it).result = None <=>
         Len(emitted) = Cardinality(grid)
    /\ gcall.op = "next" /\ gcall.result # None =>
         gcall.result[1] = emitted[Len(emitted)]
    /\ Exhausted =>
         /\ emitted = iter_set_indexes(grid)
         /\ Len(iter_set_cells(grid)) = Len(emitted)
         /\ \A k \in 1 .. Len(emitted) :
              iter_set_cells(grid)[k] = <<emitted[k] % 8, emitted[k] \div 8>>
         /\ grid = {2, 8} => iter_set_cells(grid) = << <<2, 0>>, <<0, 1>> >>

\* the iterator of the word with bits 2 and 8 has been run until None
C13_Witness ==
  /\ Exhausted
  /\ grid = {2, 8}
  /\ emitted = <<2, 8>>

\* every bit of the four bitboards is on a dark cell
PiecesOnDark(b) ==
  /\ b.player1.all \cup b.player1.kings \subseteq DarkIndexes
  /\ b.player2.all \cup b.player2.kings \subseteq DarkIndexes

\* every move yielded ends inside the grid, one diagonal step from its origin
\* for normal_moves and two for jump_moves
MovesStayInGrid(b) ==
  \A player \in Players :
    /\ \A m \in Range(normal_moves(b, player)) :
         /\ InGrid(m.to)
         /\ Abs(m.to[1] - m.from[1]) = 1 /\ Abs(m.to[2] - m.from[2]) = 1
    /\ \A m \in Range(jump_moves(b, player)) :
         /\ InGrid(m.to)
         /\ Abs(m.to[1] - m.from[1]) = 2 /\ Abs(m.to[2] - m.from[2]) = 2

\* C14 as stated: on every Board new_with_pieces returns for pieces at pairwise
\* distinct positions inside the grid, every move yielded by normal_moves or
\* jump_moves ends inside the grid, one (two) steps from its origin.
C14_NoWraparoundOnAnyCells ==
  call.op = "new_with_pieces" /\ ~trapped /\ DistinctPositions(input) =>
    MovesStayInGrid(board)

\* C14 as amended: the same on every Board whose pieces all stand on dark cells.
C14_NoWraparoundOnDarkCells ==
  PiecesOnDark(board) => MovesStayInGrid(board)

\* a piece on the left column may move towards a cell the raw shift takes from
\* the far end of the row, that cell is vacant, and moves are yielded
C14_Witness ==
  /\ call.op = "new_with_pieces"
  /\ ~trapped
  /\ PiecesOnDark(board)
  /\ \E player \in Players, c \in Cells, dy \in Steps :
       /\ c[1] = 0
       /\ MayMove(board, player, c, dy)
       /\ Idx(c) + 8 * dy - 1 \in WordBits
       /\ Idx(c) + 8 * dy - 1 \notin board.player1.all \cup board.player2.all
       /\ Len(normal_moves(board, player)) > 0

\* the place of a move's direction in the order down-left, down-right,
\* up-left, up-right (down is y + 1, left is x - 1); 0 for any other offset
DirectionGroup(m) ==
  LET dx == m.to[1] - m.from[1]
      dy == m.to[2] - m.from[2]
  IN IF dy = 1 /\ dx = -1 THEN 1
     ELSE IF dy = 1 /\ dx = 1 THEN 2
     ELSE IF dy = -1 /\ dx = -1 THEN 3
     ELSE IF dy = -1 /\ dx = 1 THEN 4
     ELSE 0

\* C15: normal_moves yields its moves in four groups, down-left, down-right,
\* up-left, up-right, and within a group in strictly ascending origin index
\* x + 8*y.
C15_GroupsInOrder ==
  \A player \in Players :
    LET moves == normal_moves(board, player)
    IN /\ \A k \in 1 .. Len(moves) : DirectionGroup(moves[k]) \in 1 .. 4
       /\ \A i, j \in 1 .. Len(moves) :
            i < j =>
              \/ DirectionGroup(moves[i]) < DirectionGroup(moves[j])
              \/ /\ DirectionGroup(moves[i]) = DirectionGroup(moves[j])
                 /\ Idx(moves[i].from) < Idx(moves[j].from)

\* a player has moves in all four directions, two of them in one direction
C15_Witness ==
  \E player \in Players :
    LET moves == normal_moves(board, player)
    IN /\ {DirectionGroup(m) : m \in Range(moves)} = 1 .. 4
       /\ \E i, j \in 1 .. Len(moves) :
            i < j /\ DirectionGroup(moves[i]) = DirectionGroup(moves[j])

\* C16: on every Board reached from Board::new() by move_piece calls with
\* yielded moves each player has exactly 12 occupied cells, and winner() is
\* None; a yielded move leaves both players' piece counts as they were.
C16_TwelveEach ==
  origin = "new" =>
    /\ Cardinality(board.player1.all) = 12
    /\ Cardinality(board.player2.all) = 12
    /\ winner(board) = None
    /\ call.op \in {"normal", "jump"} =>
         /\ Cardinality(board.player1.all) = Cardinality(prev.player1.all)
         /\ Cardinality(board.player2.all) = Cardinality(prev.player2.all)

\* a jump has just been played in a game started from Board::new()
C16_Witness ==
  /\ origin = "new"
  /\ call.op = "jump"
  /\ winner(board) = None

====
